---- MODULE Spec2Model ----
(***************************************************************************)
(* Model of polars-core/src/time.rs: DataFrame::upsample,                  *)
(* DataFrame::upsample_stable, upsample_impl and upsample_single_impl.     *)
(*                                                                         *)
(* A table is a sequence of rows [key, ts, val]: `key` is the "id" column  *)
(* a caller may group by, `ts` the index column (<<>> is null, <<v>> the   *)
(* value v in the column's physical unit), `val` a payload column holding  *)
(* the row's position in the input.  A result table is a sequence of rows  *)
(* [ts, key, val] where key and val are nullable.                          *)
(*                                                                         *)
(* Collaborators that live outside time.rs (casts, Duration arithmetic,    *)
(* date_range_vec, groupby, par_apply, join) are modelled from their       *)
(* documented contracts.                                                   *)
(***************************************************************************)
EXTENDS Integers, Sequences, FiniteSets, TLC

VARIABLES
    input,        \* the call's arguments: [rows, dtype, by, every, offset]
    stable,       \* the `stable` flag the public entry point passes down
    pc,           \* "RAW", "IMPL", "PAR", "RET", "DONE"
    frame,        \* table the active upsample_impl call runs on: [rows, dtype]
    depth,        \* Date-normalize calls waiting for their recursive call
    entered,      \* how often each dispatch branch was entered
    partitions,   \* tables handed to upsample_single_impl, in partitioner order
    results,      \* per partition: Pending or the Result of its call
    grids,        \* per partition: the date_range built for it
    saved_error,  \* <<>> or <<e>>: the first partition error par_apply saw
    completed,    \* partition indexes in the order their tasks finished
    ret,          \* Result of the innermost finished call
    pre_cast,     \* Result the Date branch received, before the cast back
    outcome       \* what the public call gave its caller

vars == <<input, stable, pc, frame, depth, entered, partitions, results,
          grids, saved_error, completed, ret, pre_cast, outcome>>

-----------------------------------------------------------------------------
(* Bounds of the model *)

MaxRows == 3
MaxDepth == 2

Keys == {1, 2}
TsRange == {-1, 1}

-----------------------------------------------------------------------------
(* Program constants *)

MS_IN_DAY == 86400000
NS_IN_MS == 1000000

-----------------------------------------------------------------------------
(* Values *)

None == <<>>
Some(x) == <<x>>

NoError == [variant |-> "", msg |-> "", arg |-> ""]
ComputeError(msg, arg) == [variant |-> "ComputeError", msg |-> msg, arg |-> arg]
NotFound(name) == [variant |-> "NotFound", msg |-> "", arg |-> name]

Ok(rows, dtype) == [kind |-> "Ok", rows |-> rows, dtype |-> dtype, err |-> NoError]
Err(e) == [kind |-> "Err", rows |-> <<>>, dtype |-> "", err |-> e]
Panic(e) == [kind |-> "Panic", rows |-> <<>>, dtype |-> "", err |-> e]
Pending == [kind |-> "Pending", rows |-> <<>>, dtype |-> "", err |-> NoError]

Dtypes == {"Date", "Datetime(Milliseconds)", "Datetime(Nanoseconds)", "Int64"}

IsDatetime(dtype) == dtype \in {"Datetime(Milliseconds)", "Datetime(Nanoseconds)"}

TimeUnitOf(dtype) ==
    IF dtype = "Datetime(Milliseconds)" THEN "Milliseconds" ELSE "Nanoseconds"

RECURSIVE Flatten(_)
Flatten(ss) == IF ss = <<>> THEN <<>> ELSE Head(ss) \o Flatten(Tail(ss))

IndexColumn(rows) == [i \in 1..Len(rows) |-> rows[i].ts]

-----------------------------------------------------------------------------
(* Collaborators outside time.rs, modelled from their contracts *)

\* Series::cast, on one physical value, for the two casts time.rs asks for.
\* Date holds days and Datetime(Milliseconds) holds milliseconds since the
\* epoch. Date -> Datetime multiplies by the milliseconds of a day.
\* Datetime -> Date divides by them: the contract ("lossless", "preserves every
\* day value") fixes the quotient of a whole-day timestamp only, and leaves
\* open whether a timestamp inside a day before the epoch is rounded toward
\* minus infinity or toward zero, so the rounding is an outcome the cast picks.
Roundings == {"floor", "truncate"}

div_round(v, n, r) ==
    IF r = "truncate" /\ v < 0 THEN -((-v) \div n) ELSE v \div n

cast(v, from, to, r) ==
    CASE from = "Date" /\ to = "Datetime(Milliseconds)" -> v * MS_IN_DAY
      [] from = "Datetime(Milliseconds)" /\ to = "Date" -> div_round(v, MS_IN_DAY, r)
      [] OTHER -> v

\* A Duration is modelled by its physical length in milliseconds.
add_ms(d, t) == t + d
add_ns(d, t) == t + d * NS_IN_MS

add_duration(d, t, tu) == IF tu = "Milliseconds" THEN add_ms(d, t) ELSE add_ns(d, t)

\* polars_time::date_range_vec: start, start+every, ... bounded by stop under
\* the closed-window policy.
RECURSIVE range_from(_, _, _, _, _)
range_from(t, stop, every, incl_stop, tu) ==
    IF t < stop \/ (incl_stop /\ t = stop)
    THEN <<t>> \o range_from(add_duration(every, t, tu), stop, every, incl_stop, tu)
    ELSE <<>>

date_range_vec(start, stop, every, closed, tu) ==
    CASE closed = "Both" -> range_from(start, stop, every, TRUE, tu)
      [] closed = "Left" -> range_from(start, stop, every, FALSE, tu)
      [] closed = "Right" ->
            range_from(add_duration(every, start, tu), stop, every, TRUE, tu)
      [] closed = "None" ->
            range_from(add_duration(every, start, tu), stop, every, FALSE, tu)

\* DataFrame::join on the index column: every left row is paired with every
\* right row of equal key, in right row order; a left row without a match is
\* kept with nulls under a Left join and dropped under an Inner join.
Matches(g, right) == SelectSeq(right, LAMBDA r: r.ts = Some(g))

JoinRow(g, right, how) ==
    LET m == Matches(g, right)
    IN IF m = <<>>
       THEN IF how = "Left" THEN <<[ts |-> g, key |-> None, val |-> None]>> ELSE <<>>
       ELSE [j \in 1..Len(m) |-> [ts |-> g, key |-> Some(m[j].key), val |-> Some(m[j].val)]]

join(left, right, how) ==
    Flatten([i \in 1..Len(left) |-> JoinRow(left[i], right, how)])

\* Group keys in order of first appearance.
RECURSIVE FirstKeys(_, _)
FirstKeys(rows, seen) ==
    IF rows = <<>> THEN <<>>
    ELSE IF Head(rows).key \in seen THEN FirstKeys(Tail(rows), seen)
    ELSE <<Head(rows).key>> \o FirstKeys(Tail(rows), seen \cup {Head(rows).key})

GroupRows(rows, k) == SelectSeq(rows, LAMBDA r: r.key = k)

\* DataFrame::groupby_stable: one sub-table per distinct key, in order of the
\* key's first appearance, each keeping its rows in table order.
groupby_stable(rows) ==
    LET ks == FirstKeys(rows, {})
    IN [i \in 1..Len(ks) |-> GroupRows(rows, ks[i])]

\* DataFrame::groupby: the same sub-tables in an unspecified order.
IsPermutation(p, n) ==
    /\ p \in [1..n -> 1..n]
    /\ \A i, j \in 1..n : p[i] = p[j] => i = j

groupby(rows) ==
    LET g == groupby_stable(rows)
    IN {[i \in 1..Len(g) |-> g[p[i]]] : p \in {q \in [1..Len(g) -> 1..Len(g)] : IsPermutation(q, Len(g))}}

-----------------------------------------------------------------------------
(* time.rs *)

\* date_range: the vector of date_range_vec tagged with the time unit.
date_range(start, stop, every, closed, tu) ==
    date_range_vec(start, stop, every, closed, tu)

\* ca.into_iter().flatten().next() / .next_back()
Flattened(ca) == SelectSeq(ca, LAMBDA o: o # None)

first_non_null(ca) ==
    IF Flattened(ca) = <<>> THEN None ELSE Some(Head(Flattened(ca))[1])

last_non_null(ca) ==
    IF Flattened(ca) = <<>> THEN None
    ELSE Some(Flattened(ca)[Len(Flattened(ca))][1])

\* the offset is added to `first` in the column's time unit
new_first_minus(first, offset, tu) == add_duration(-offset, first, tu)
new_first(first, offset, tu) ==
    IF tu = "Milliseconds" THEN add_ms(offset, first) ELSE add_ns(offset, first)

UpsampleClosedWindow == "Both"

UpsampleJoinType_Inner == "Inner"
UpsampleJoinType == "Left"

\* the grid of one partition, given that it has a non-null index value
upsample_range(ca, tu, every, offset) ==
    date_range(new_first(first_non_null(ca)[1], offset, tu),
               last_non_null(ca)[1], every, UpsampleClosedWindow, tu)

EmptyDomainError_Silent == Ok(<<>>, "Datetime(Milliseconds)")
EmptyDomainError ==
    Err(ComputeError("Cannot determine upsample boundaries. All elements are null.", ""))

UnsupportedDtypeError(dt) ==
    Err(ComputeError("upsample not allowed for index_column of dtype", dt))

upsample_single_impl(rows, dtype, every, offset) ==
    IF IsDatetime(dtype)
    THEN LET ca == IndexColumn(rows)
         IN IF first_non_null(ca) # None /\ last_non_null(ca) # None
            THEN Ok(join(upsample_range(ca, TimeUnitOf(dtype), every, offset),
                         rows, UpsampleJoinType),
                    dtype)
            ELSE EmptyDomainError
    ELSE UnsupportedDtypeError(dtype)

\* the grid upsample_single_impl builds on its way (<<>> when it builds none)
GridOf(rows, dtype, every, offset) ==
    IF IsDatetime(dtype) /\ first_non_null(IndexColumn(rows)) # None
    THEN upsample_range(IndexColumn(rows), TimeUnitOf(dtype), every, offset)
    ELSE <<>>

\* Series::cast applied to the index column of a table / of a result
CastTable(rows, from, to, r) ==
    [i \in 1..Len(rows) |->
        [rows[i] EXCEPT !.ts = IF rows[i].ts = None THEN None
                               ELSE Some(cast(rows[i].ts[1], from, to, r))]]

CastResult(rows, from, to, r) ==
    [i \in 1..Len(rows) |-> [rows[i] EXCEPT !.ts = cast(rows[i].ts, from, to, r)]]

\* dtype the Date branch casts the index column to before it recurses
DateCastTarget_Date == "Date"
DateCastTarget == "Datetime(Milliseconds)"

\* out.try_apply(index_column, |s| s.cast(&DataType::Date)); Ok(out)
CastBack_Skipped(out, r) == out
CastBack(out, r) == Ok(CastResult(out.rows, out.dtype, "Date", r), "Date")

\* the `by` list and the table of the call made for one partition
PartitionBy == <<>>

PartitionTable_Shared(parts, i) == Flatten(parts)
PartitionTable(parts, i) == parts[i]

\* if stable { self.groupby_stable(by) } else { self.groupby(by) }
Partitioner_Unstable(st, rows) == groupby(rows)
Partitioner(st, rows) == IF st THEN {groupby_stable(rows)} ELSE groupby(rows)

Absent == "<absent>"
Columns(dtype) == IF dtype = Absent THEN {"id", "val"} ELSE {"id", "val", "ts"}

\* the branch upsample_impl takes
Dispatch(dtype, by) ==
    IF dtype = Absent THEN "NO_COLUMN"
    ELSE IF dtype = "Date" THEN "DATE_NORMALIZE"
    ELSE IF by = <<>> THEN "UNGROUPED"
    ELSE "GROUPED"

Branches == {"DATE_NORMALIZE", "UNGROUPED", "GROUPED"}

Enter(b) == entered' = [entered EXCEPT ![b] = @ + 1]

-----------------------------------------------------------------------------
(* Inputs *)

\* Date tables are upsampled at half-day and day steps, Datetime tables at
\* one and two milliseconds; index values are whole days / milliseconds
Unit(dtype) == IF dtype = "Date" THEN MS_IN_DAY \div 2 ELSE 1

Native(dtype, t) == IF dtype = "Datetime(Nanoseconds)" THEN t * NS_IN_MS ELSE t

TsOptions(dtype) ==
    IF dtype = Absent THEN {None}
    ELSE {None} \cup {Some(Native(dtype, t)) : t \in TsRange}

\* steps are positive Durations; offsets may be negative, zero or positive
EveryOptions(dtype) == {Unit(dtype), 2 * Unit(dtype)}
OffsetOptions(dtype) == {-Unit(dtype), 0, Unit(dtype)}
ByOptions == {<<>>, <<"id">>, <<"nope">>}

Tables(dtype) ==
    UNION {{[i \in 1..n |-> [key |-> ks[i], ts |-> ts[i], val |-> i]] :
               ks \in [1..n -> Keys], ts \in [1..n -> TsOptions(dtype)]} :
           n \in 0..MaxRows}

Init ==
    /\ \E dtype \in Dtypes \cup {Absent} :
       \E rows \in Tables(dtype), by \in ByOptions,
          every \in EveryOptions(dtype), offset \in OffsetOptions(dtype) :
          input = [rows |-> rows, dtype |-> dtype, by |-> by,
                   every |-> every, offset |-> offset]
    /\ stable = FALSE
    /\ pc = "RAW"
    /\ frame = [rows |-> input.rows, dtype |-> input.dtype]
    /\ depth = 0
    /\ entered = [b \in Branches |-> 0]
    /\ partitions = <<>>
    /\ results = <<>>
    /\ grids = <<>>
    /\ saved_error = None
    /\ completed = <<>>
    /\ ret = Pending
    /\ pre_cast = Pending
    /\ outcome = Pending

-----------------------------------------------------------------------------
(* Public entry points *)

upsample ==
    /\ pc = "RAW"
    /\ stable' = FALSE
    /\ pc' = "IMPL"
    /\ UNCHANGED <<input, frame, depth, entered, partitions, results, grids,
                   saved_error, completed, ret, pre_cast, outcome>>

upsample_stable ==
    /\ pc = "RAW"
    /\ stable' = TRUE
    /\ pc' = "IMPL"
    /\ UNCHANGED <<input, frame, depth, entered, partitions, results, grids,
                   saved_error, completed, ret, pre_cast, outcome>>

-----------------------------------------------------------------------------
(* upsample_impl *)

\* let s = self.column(index_column)?;
ImplNoColumn ==
    /\ pc = "IMPL"
    /\ Dispatch(frame.dtype, input.by) = "NO_COLUMN"
    /\ ret' = Err(NotFound("ts"))
    /\ pc' = "RET"
    /\ UNCHANGED <<input, stable, frame, depth, entered, partitions, results,
                   grids, saved_error, completed, pre_cast, outcome>>

\* Date index: clone, cast the index column, recurse with the same arguments
ImplDateNormalize ==
    /\ pc = "IMPL"
    /\ Dispatch(frame.dtype, input.by) = "DATE_NORMALIZE"
    /\ depth < MaxDepth
    /\ Enter("DATE_NORMALIZE")
    /\ \E r \in Roundings :
          frame' = [rows |-> CastTable(frame.rows, frame.dtype, DateCastTarget, r),
                    dtype |-> DateCastTarget]
    /\ depth' = depth + 1
    /\ UNCHANGED <<input, stable, pc, partitions, results, grids, saved_error,
                   completed, ret, pre_cast, outcome>>

\* by.is_empty(): self.upsample_single_impl(index_column, every, offset)
ImplUngrouped ==
    /\ pc = "IMPL"
    /\ Dispatch(frame.dtype, input.by) = "UNGROUPED"
    /\ Enter("UNGROUPED")
    /\ partitions' = <<frame.rows>>
    /\ grids' = <<GridOf(frame.rows, frame.dtype, input.every, input.offset)>>
    /\ results' = <<upsample_single_impl(frame.rows, frame.dtype,
                                         input.every, input.offset)>>
    /\ ret' = results'[1]
    /\ pc' = "RET"
    /\ UNCHANGED <<input, stable, frame, depth, saved_error, completed,
                   pre_cast, outcome>>

\* gb? when a `by` column does not exist
ImplGroupbyError ==
    /\ pc = "IMPL"
    /\ Dispatch(frame.dtype, input.by) = "GROUPED"
    /\ \E i \in 1..Len(input.by) : input.by[i] \notin Columns(frame.dtype)
    /\ Enter("GROUPED")
    /\ ret' = Err(NotFound(input.by[1]))
    /\ pc' = "RET"
    /\ UNCHANGED <<input, stable, frame, depth, partitions, results, grids,
                   saved_error, completed, pre_cast, outcome>>

\* the partitioner splits the table; par_apply starts one task per partition
ImplGrouped ==
    /\ pc = "IMPL"
    /\ Dispatch(frame.dtype, input.by) = "GROUPED"
    /\ \A i \in 1..Len(input.by) : input.by[i] \in Columns(frame.dtype)
    /\ Enter("GROUPED")
    /\ \E g \in Partitioner(stable, frame.rows) :
          /\ partitions' = g
          /\ results' = [i \in 1..Len(g) |-> Pending]
          /\ grids' = [i \in 1..Len(g) |-> <<>>]
    /\ saved_error' = None
    /\ completed' = <<>>
    /\ pc' = "PAR"
    /\ UNCHANGED <<input, stable, frame, depth, ret, pre_cast, outcome>>

\* one task of par_apply: df.upsample_impl(vec![], index_column, every, offset, false)
\* on its partition; the call finds the index column, not of dtype Date, and
\* an empty `by`, so it runs upsample_single_impl
PartitionTask(i) ==
    /\ pc = "PAR"
    /\ results[i] = Pending
    /\ Dispatch(frame.dtype, PartitionBy) = "UNGROUPED"
    /\ Enter("UNGROUPED")
    /\ LET df == PartitionTable(partitions, i)
           r == upsample_single_impl(df, frame.dtype, input.every, input.offset)
       IN /\ results' = [results EXCEPT ![i] = r]
          /\ grids' = [grids EXCEPT ![i] = GridOf(df, frame.dtype, input.every, input.offset)]
          /\ saved_error' = IF r.kind = "Err" /\ saved_error = None
                            THEN Some(r) ELSE saved_error
    /\ completed' = Append(completed, i)
    /\ UNCHANGED <<input, stable, pc, frame, depth, partitions, ret, pre_cast,
                   outcome>>

\* par_apply gathers: every task succeeded, the results are concatenated in
\* partition order
ParGatherOk ==
    /\ pc = "PAR"
    /\ saved_error = None
    /\ \A i \in 1..Len(results) : results[i].kind = "Ok"
    /\ ret' = Ok(Flatten([i \in 1..Len(results) |-> results[i].rows]), frame.dtype)
    /\ pc' = "RET"
    /\ UNCHANGED <<input, stable, frame, depth, entered, partitions, results,
                   grids, saved_error, completed, pre_cast, outcome>>

\* par_apply gathers: a task failed, its error is the result
ParGatherErr ==
    /\ pc = "PAR"
    /\ saved_error # None
    /\ ret' = saved_error[1]
    /\ pc' = "RET"
    /\ UNCHANGED <<input, stable, frame, depth, entered, partitions, results,
                   grids, saved_error, completed, pre_cast, outcome>>

\* .unwrap() of the recursive call's Err in the Date branch
DateUnwrapPanic ==
    /\ pc = "RET"
    /\ depth > 0
    /\ ret.kind = "Err"
    /\ outcome' = Panic(ret.err)
    /\ pc' = "DONE"
    /\ UNCHANGED <<input, stable, frame, depth, entered, partitions, results,
                   grids, saved_error, completed, ret, pre_cast>>

\* the Date branch casts the result's index column back and returns Ok(out)
DateCastBack ==
    /\ pc = "RET"
    /\ depth > 0
    /\ ret.kind = "Ok"
    /\ pre_cast' = ret
    /\ \E r \in Roundings : ret' = CastBack(ret, r)
    /\ depth' = depth - 1
    /\ UNCHANGED <<input, stable, pc, frame, entered, partitions, results,
                   grids, saved_error, completed, outcome>>

\* the outermost upsample_impl returns to the public entry point's caller
ReturnToCaller ==
    /\ pc = "RET"
    /\ depth = 0
    /\ outcome' = ret
    /\ pc' = "DONE"
    /\ UNCHANGED <<input, stable, frame, depth, entered, partitions, results,
                   grids, saved_error, completed, ret, pre_cast>>

upsample_impl ==
    \/ ImplNoColumn
    \/ ImplDateNormalize
    \/ ImplUngrouped
    \/ ImplGroupbyError
    \/ ImplGrouped
    \/ DateUnwrapPanic
    \/ DateCastBack
    \/ ReturnToCaller

par_apply ==
    \/ \E i \in 1..Len(partitions) : PartitionTask(i)
    \/ ParGatherOk
    \/ ParGatherErr

Next ==
    \/ upsample
    \/ upsample_stable
    \/ upsample_impl
    \/ par_apply

Spec == Init /\ [][Next]_vars

-----------------------------------------------------------------------------
(* Vocabulary of the properties *)

RECURSIVE SumSeq(_)
SumSeq(ns) == IF ns = <<>> THEN 0 ELSE Head(ns) + SumSeq(Tail(ns))

SetMin(S) == CHOOSE x \in S : \A y \in S : x <= y
SetMax(S) == CHOOSE x \in S : \A y \in S : y <= x

NonNullValues(rows) == {rows[j].ts[1] : j \in {k \in 1..Len(rows) : rows[k].ts # None}}
AllNull(rows) == \A j \in 1..Len(rows) : rows[j].ts = None

\* first and last non-null index value in row order, read off the rows
FirstIndex(rows) ==
    rows[SetMin({k \in 1..Len(rows) : rows[k].ts # None})].ts[1]
LastIndex(rows) ==
    rows[SetMax({k \in 1..Len(rows) : rows[k].ts # None})].ts[1]

\* a single-group call has been made for partition i
Called(i) == i \in 1..Len(results) /\ results[i] # Pending

\* offset and step in the physical unit of the active table's index column
OffsetSteps == IF frame.dtype = "Datetime(Nanoseconds)"
               THEN input.offset * NS_IN_MS ELSE input.offset
EverySteps == IF frame.dtype = "Datetime(Nanoseconds)"
              THEN input.every * NS_IN_MS ELSE input.every

ByExists == \A i \in 1..Len(input.by) : input.by[i] \in {"id", "val", "ts"}

EmptyDomainMessage == "Cannot determine upsample boundaries. All elements are null."

\* grid g starts no earlier than lo + offset and runs up to and including hi
GridWithin(g, lo, hi) ==
    /\ g # <<>> => g[1] >= lo + OffsetSteps
    /\ \A k \in 1..Len(g) : g[k] <= hi
    /\ IF g = <<>> THEN lo + OffsetSteps > hi
       ELSE g[Len(g)] + EverySteps > hi

-----------------------------------------------------------------------------
(* C1 *)

\* C1: every failure raised by a step of the call is returned to the caller
\* as that same error value; the call never ends in a panic.
C1_ErrorsPropagateUnchanged ==
    pc = "DONE" =>
        /\ outcome.kind \in {"Ok", "Err"}
        /\ ret.kind = "Err" => outcome = ret
        /\ (\E i \in 1..Len(results) : results[i].kind = "Err") =>
              \E i \in 1..Len(results) : results[i].kind = "Err" /\ outcome = results[i]

-----------------------------------------------------------------------------
(* C2 *)

InputPartitions ==
    IF input.by = <<>> THEN <<input.rows>> ELSE groupby_stable(input.rows)

\* C2: when a partition of a Date or Datetime table has no non-null index
\* value, the call yields the EmptyDomain error.
C2_NullDomainRejected ==
    ( /\ pc = "DONE"
      /\ input.dtype \in {"Date", "Datetime(Milliseconds)", "Datetime(Nanoseconds)"}
      /\ ByExists
      /\ \E i \in 1..Len(InputPartitions) : AllNull(InputPartitions[i]) )
    => outcome = Err(ComputeError(EmptyDomainMessage, ""))

-----------------------------------------------------------------------------
(* C3 *)

\* C3 as stated: the grid of every partition with a non-null index value
\* starts at or after minimum + offset and runs up to and including the
\* maximum, in any row order.
C3_GridBoundsMinMax ==
    \A i \in 1..Len(partitions) :
        (Called(i) /\ IsDatetime(frame.dtype) /\ ~AllNull(partitions[i])) =>
            GridWithin(grids[i], SetMin(NonNullValues(partitions[i])),
                       SetMax(NonNullValues(partitions[i])))

\* C3 amended: the grid of every partition with a non-null index value starts
\* at or after (first non-null index value in row order + offset) and runs up
\* to and including the last non-null index value in row order, which is never
\* shifted by the offset; for a partition sorted by the index these are its
\* minimum and maximum.
C3_GridBoundsFirstLast ==
    \A i \in 1..Len(partitions) :
        (Called(i) /\ IsDatetime(frame.dtype) /\ ~AllNull(partitions[i])) =>
            /\ GridWithin(grids[i], FirstIndex(partitions[i]), LastIndex(partitions[i]))
            /\ ( /\ FirstIndex(partitions[i]) = SetMin(NonNullValues(partitions[i]))
                 /\ LastIndex(partitions[i]) = SetMax(NonNullValues(partitions[i])) )
               => GridWithin(grids[i], SetMin(NonNullValues(partitions[i])),
                             SetMax(NonNullValues(partitions[i])))

\* an unsorted partition whose grid has several points and a shifted start
C3_Witness ==
    /\ pc = "DONE"
    /\ input.offset # 0
    /\ \E i \in 1..Len(partitions) :
          /\ Called(i) /\ IsDatetime(frame.dtype) /\ ~AllNull(partitions[i])
          /\ Len(grids[i]) >= 2
          /\ FirstIndex(partitions[i]) # SetMin(NonNullValues(partitions[i]))
          /\ grids[i][Len(grids[i])] = LastIndex(partitions[i])

-----------------------------------------------------------------------------
(* C4 *)

MatchCount(rows, g) == Cardinality({j \in 1..Len(rows) : rows[j].ts = Some(g)})
RowsAt(out, g) == {k \in 1..Len(out) : out[k].ts = g}
GridPoints(g) == {g[k] : k \in 1..Len(g)}

\* C4 as stated: the single-group result has exactly one row per grid point,
\* ascending without duplicate timestamps, unmatched rows null, off-grid
\* partition rows dropped, also when timestamps repeat.
C4_OneRowPerGridPoint ==
    \A i \in 1..Len(partitions) :
        (Called(i) /\ results[i].kind = "Ok") =>
            LET out == results[i].rows
                g == grids[i]
            IN /\ Len(out) = Len(g)
               /\ \A k \in 1..Len(out) : out[k].ts = g[k]
               /\ \A k \in 1..(Len(out) - 1) : out[k].ts < out[k + 1].ts
               /\ \A k \in 1..Len(out) :
                     MatchCount(partitions[i], out[k].ts) = 0
                        => out[k].key = None /\ out[k].val = None

\* C4 amended: the single-group result lists the grid points in ascending
\* order, each once when at most one partition row has that timestamp and once
\* per matching partition row otherwise; unmatched grid rows carry nulls in the
\* other columns, every partition row whose timestamp is on the grid appears
\* exactly once, and partition rows off the grid or with a null index are
\* dropped.  With no repeated timestamp there is exactly one row per grid point.
C4_JoinCompleteness ==
    \A i \in 1..Len(partitions) :
        (Called(i) /\ results[i].kind = "Ok") =>
            LET out == results[i].rows
                g == grids[i]
                part == partitions[i]
            IN /\ \A k \in 1..(Len(out) - 1) : out[k].ts <= out[k + 1].ts
               /\ \A k \in 1..Len(out) : out[k].ts \in GridPoints(g)
               /\ \A k \in 1..Len(g) :
                     Cardinality(RowsAt(out, g[k])) =
                        IF MatchCount(part, g[k]) = 0 THEN 1 ELSE MatchCount(part, g[k])
               /\ \A k \in 1..Len(out) :
                     IF MatchCount(part, out[k].ts) = 0
                     THEN out[k].key = None /\ out[k].val = None
                     ELSE \E j \in 1..Len(part) :
                             /\ part[j].ts = Some(out[k].ts)
                             /\ out[k].key = Some(part[j].key)
                             /\ out[k].val = Some(part[j].val)
               /\ \A j \in 1..Len(part) :
                     Cardinality({k \in 1..Len(out) : out[k].val = Some(part[j].val)}) =
                        IF part[j].ts # None /\ part[j].ts[1] \in GridPoints(g)
                        THEN 1 ELSE 0
               /\ (\A k \in 1..Len(g) : MatchCount(part, g[k]) <= 1) =>
                     /\ Len(out) = Len(g)
                     /\ \A k \in 1..Len(out) : out[k].ts = g[k]

\* a partition with a repeated timestamp, a grid point no row matches and a
\* row that is dropped
C4_Witness ==
    /\ pc = "DONE"
    /\ \E i \in 1..Len(partitions) :
          /\ Called(i) /\ results[i].kind = "Ok"
          /\ \E k \in 1..Len(grids[i]) : MatchCount(partitions[i], grids[i][k]) = 0
          /\ \E k \in 1..Len(grids[i]) : MatchCount(partitions[i], grids[i][k]) = 2
          /\ Len(results[i].rows) > Len(grids[i])

\* a partition without repeated timestamps: one row per grid point, one of
\* them unmatched, and a partition row off the grid
C4_WitnessUnique ==
    /\ pc = "DONE"
    /\ \E i \in 1..Len(partitions) :
          /\ Called(i) /\ results[i].kind = "Ok"
          /\ Len(grids[i]) >= 2
          /\ Len(results[i].rows) = Len(grids[i])
          /\ \E k \in 1..Len(grids[i]) : MatchCount(partitions[i], grids[i][k]) = 0
          /\ \E j \in 1..Len(partitions[i]) :
                /\ partitions[i][j].ts # None
                /\ partitions[i][j].ts[1] \notin GridPoints(grids[i])

-----------------------------------------------------------------------------
(* C5 *)

\* C5: a table whose index column is neither Date nor Datetime is rejected
\* with UnsupportedDtype, whatever `by` is and however many rows it has.
C5_DtypeRejected ==
    (pc = "DONE" /\ input.dtype = "Int64" /\ ByExists)
    => outcome = Err(ComputeError("upsample not allowed for index_column of dtype", "Int64"))

-----------------------------------------------------------------------------
(* Grouped calls *)

\* the table the caller gets before the Date branch casts its index back
BaseRows == IF input.dtype = "Date" THEN pre_cast.rows ELSE outcome.rows

GroupedOk ==
    /\ pc = "DONE"
    /\ input.by = <<"id">>
    /\ outcome.kind = "Ok"

PartitionKey(i) == partitions[i][1].key

\* what a grid point contributes to the result of the left join
RowsForPoint(part, t) == IF MatchCount(part, t) = 0 THEN 1 ELSE MatchCount(part, t)

JoinSize(part, g) == SumSeq([k \in 1..Len(g) |-> RowsForPoint(part, g[k])])

-----------------------------------------------------------------------------
(* C6 *)

\* C6: upsample_stable with a non-empty `by` returns the per-partition results
\* in the order of the stable partitioner (group keys by first appearance in
\* the table), whatever the order in which the partition tasks finish.
C6_StableOrder ==
    (GroupedOk /\ stable) =>
        LET ks == FirstKeys(input.rows, {})
        IN /\ Len(partitions) = Len(ks)
           /\ \A i \in 1..Len(ks) :
                 /\ partitions[i] = GroupRows(frame.rows, ks[i])
                 /\ \A k \in 1..Len(results[i].rows) :
                       results[i].rows[k].key \in {None, Some(ks[i])}
           /\ BaseRows = Flatten([i \in 1..Len(ks) |-> results[i].rows])
           /\ Len(outcome.rows) = Len(BaseRows)
           /\ \A k \in 1..Len(BaseRows) :
                 /\ outcome.rows[k].key = BaseRows[k].key
                 /\ outcome.rows[k].val = BaseRows[k].val

\* two partitions whose tasks finished in reverse order, the key that appears
\* first in the table being the larger one, both with rows in the result
C6_Witness ==
    /\ GroupedOk /\ stable
    /\ Len(partitions) = 2
    /\ completed = <<2, 1>>
    /\ input.rows[1].key = 2
    /\ results[1].rows # <<>> /\ results[2].rows # <<>>
    /\ outcome.rows[1].key = Some(2)

-----------------------------------------------------------------------------
(* C7 *)

\* the partition call for table `rows` fails
PartitionFails(rows) == ~IsDatetime(frame.dtype) \/ AllNull(rows)

FailingPartitions == {i \in 1..Len(partitions) : PartitionFails(partitions[i])}

PartitionError(i) ==
    IF IsDatetime(frame.dtype)
    THEN Err(ComputeError(EmptyDomainMessage, ""))
    ELSE Err(ComputeError("upsample not allowed for index_column of dtype", frame.dtype))

\* C7: when partitions of a grouped call fail, the grouped call returns the
\* error of the failing partition with the lowest index, whatever the order in
\* which the partition tasks ran, and the whole call fails with that error
\* (the same value for the same input).
C7_FirstErrorDeterministic ==
    ( /\ pc \in {"RET", "DONE"}
      /\ entered["GROUPED"] >= 1
      /\ FailingPartitions # {} )
    => /\ ret = PartitionError(SetMin(FailingPartitions))
       /\ pc = "DONE" =>
             /\ outcome.kind \in {"Err", "Panic"}
             /\ outcome.err = PartitionError(SetMin(FailingPartitions)).err

\* two failing partitions; the one with the higher index failed first and the
\* call was given up before the other ran
C7_Witness ==
    /\ pc = "DONE"
    /\ entered["GROUPED"] = 1
    /\ Cardinality(FailingPartitions) >= 2
    /\ completed # <<>>
    /\ completed[1] # SetMin(FailingPartitions)
    /\ results[SetMin(FailingPartitions)] = Pending
    /\ outcome.kind = "Err"

-----------------------------------------------------------------------------
(* C8 *)

\* every partition is one group, its grid is built from that group's rows
\* alone, and its call was made exactly once
PerGroupGrids ==
    /\ Len(partitions) = Cardinality({input.rows[j].key : j \in 1..Len(input.rows)})
    /\ \A i, j \in 1..Len(partitions) : PartitionKey(i) = PartitionKey(j) => i = j
    /\ entered["UNGROUPED"] = Len(partitions)
    /\ \A i \in 1..Len(partitions) :
          LET own == GroupRows(frame.rows, PartitionKey(i))
              g == grids[i]
          IN /\ partitions[i] = own
             /\ ~AllNull(own)
             /\ Cardinality({k \in 1..Len(completed) : completed[k] = i}) = 1
             /\ g # <<>> => g[1] = FirstIndex(own) + OffsetSteps
             /\ \A k \in 1..(Len(g) - 1) : g[k + 1] = g[k] + EverySteps
             /\ GridWithin(g, FirstIndex(own), LastIndex(own))
             /\ \A k \in 1..Len(results[i].rows) :
                   /\ results[i].rows[k].ts \in GridPoints(g)
                   /\ results[i].rows[k].key \in {None, Some(PartitionKey(i))}

\* C8 as stated: per-group grids, one call per partition, and as many output
\* rows as the partitions' grids have points.
C8_RowsEqualGridSizes ==
    GroupedOk =>
        /\ PerGroupGrids
        /\ Len(outcome.rows) = SumSeq([i \in 1..Len(grids) |-> Len(grids[i])])

\* C8 amended: per-group grids, one call per partition, and the number of
\* output rows is the sum over the partitions of the rows of that partition's
\* left join (per grid point one row, or one per partition row with that
\* timestamp), which is the sum of the grid sizes when no partition repeats a
\* timestamp of its grid.
C8_PerGroupGrids ==
    GroupedOk =>
        /\ PerGroupGrids
        /\ Len(outcome.rows) =
              SumSeq([i \in 1..Len(grids) |-> JoinSize(partitions[i], grids[i])])
        /\ (\A i \in 1..Len(grids) : \A k \in 1..Len(grids[i]) :
               MatchCount(partitions[i], grids[i][k]) <= 1)
           => Len(outcome.rows) = SumSeq([i \in 1..Len(grids) |-> Len(grids[i])])

\* two groups with disjoint index ranges, each with its own grid
C8_Witness ==
    /\ GroupedOk
    /\ Len(partitions) = 2
    /\ Len(grids[1]) + Len(grids[2]) >= 3
    /\ GridPoints(grids[1]) \cap GridPoints(grids[2]) = {}
    /\ Len(outcome.rows) = Len(grids[1]) + Len(grids[2])

-----------------------------------------------------------------------------
(* C9 *)

-----------------------------------------------------------------------------
(* C10 *)

PendingTasks == Cardinality({i \in 1..Len(results) : results[i] = Pending})

\* steps the call has left at most
Measure ==
    CASE pc = "DONE" -> 0
      [] pc = "RET" -> 1 + depth
      [] pc = "PAR" -> MaxDepth + 2 + PendingTasks
      [] pc = "IMPL" -> MaxDepth + MaxRows + 3 + (IF frame.dtype = "Date" THEN 1 ELSE 0)
      [] pc = "RAW" -> MaxDepth + MaxRows + 5

\* some action of the call is enabled
CanStep ==
    CASE pc = "RAW" -> TRUE
      [] pc = "IMPL" ->
            Dispatch(frame.dtype, input.by) = "DATE_NORMALIZE" => depth < MaxDepth
      [] pc = "PAR" ->
            \/ /\ \E i \in 1..Len(results) : results[i] = Pending
               /\ Dispatch(frame.dtype, PartitionBy) = "UNGROUPED"
            \/ saved_error # None
            \/ \A i \in 1..Len(results) : results[i].kind = "Ok"
      [] pc = "RET" -> ret.kind \in {"Ok", "Err"}
      [] OTHER -> FALSE

BoundedDispatch ==
    /\ entered["DATE_NORMALIZE"] <= 1
    /\ entered["GROUPED"] <= 1
    /\ depth <= 1
    /\ depth = 1 => frame.dtype # "Date"
    /\ pc = "PAR" => Dispatch(frame.dtype, PartitionBy) = "UNGROUPED"
    /\ pc = "DONE" \/ CanStep

\* C10: a call enters the Date-normalize branch at most once and the grouped
\* branch at most once (the call made after the cast does not see a Date index,
\* a partition call has an empty `by`), every step brings it closer to DONE,
\* and it never stops before DONE.
C10_BoundedDispatch ==
    /\ []BoundedDispatch
    /\ [][Measure' < Measure]_vars

\* a finished call that went through the Date branch, the grouped branch and
\* one single-group call per partition
C10_Witness ==
    /\ pc = "DONE"
    /\ outcome.kind = "Ok"
    /\ entered["DATE_NORMALIZE"] = 1
    /\ entered["GROUPED"] = 1
    /\ entered["UNGROUPED"] = 2

====

